---------------------------- MODULE Spec2Model ----------------------------
(* Keyboard-to-UDP controller for the UFO-03: the protocol codec            *)
(* (ufo_protocol.py), the console key decoder (ufo_input_windows.py) and     *)
(* the control loop with its takeoff burst (ufo_controller.py).              *)
(*                                                                           *)
(* Time is counted in ticks of 5 ms: time.monotonic() is the variable clock, *)
(* which advances only while the program sleeps. A sleep of the steady-state *)
(* loop may overshoot by up to MaxJitter ticks; the pacing sleeps of a       *)
(* takeoff burst are exact.                                                  *)
EXTENDS Integers, Sequences, FiniteSets, TLC

VARIABLES
    args,        \* the validated configuration (ufo_config.Args), in ticks
    keys,        \* the characters the operator may type in this run
    budget,      \* the number of characters the operator may type in this run
    pc,          \* position of run(): start, burst, top, drain, analog, ka, sleep, done, failed
    clock,       \* time.monotonic()
    sock,        \* none | open | closed
    ret,         \* none | 0 (run returned 0) | raised (an exception left run)
    kb,          \* the console input buffer (characters not yet read)
    wire,        \* a key's character sequence on its way to the console buffer
    typed,       \* number of characters typed so far
    fresh,       \* the clock has advanced since the last drain ended
    t_last,      \* run's t_last table
    now,         \* run's local now
    next_analog, \* run's local next_analog
    next_ka,     \* run's local next_ka (NoKa when None)
    did,         \* run's local did
    t0,          \* run's local t0 (entry time of the steady-state loop)
    horizon,     \* the clock value from which the steady-state loop may no longer sleep
    burst,       \* send_takeoff_burst's locals and its call site
    on,          \* the held inputs computed for the last analog frame (w_on .. right_on)
    out,         \* the datagram handed to sendto by the last step (<<>> if none)
    slept,       \* the argument of the last time.sleep call (0 if the last step did not sleep)
    pend,        \* characters pending when the current drain began and still unread
    drained,     \* the tokens read_key has returned in the current iteration, in order
    t_obs,       \* clock value at which read_key last returned each directional token
    sent,        \* datagrams sent: steady-state analog frames, keepalives, frames of the current burst
    call         \* the last call of a codec function (inputs and result)

vars == <<args, keys, budget, pc, clock, sock, ret, kb, wire, typed, fresh, t_last, now, next_analog,
          next_ka, did, t0, horizon, burst, on, out, slept, pend, drained, t_obs, sent,
          call>>

-----------------------------------------------------------------------------
(* Bounds of the model *)

\* characters the operator types in one run
MaxKeys == 2
\* takeoff keys the operator presses in one run
MaxTakeoffs == 1
\* ticks a sleep may overshoot its argument
MaxJitter == 1
\* ticks of steady state after which the loop is no longer allowed to sleep
MaxSteady == 8
\* how far outside 0..255 the sampled codec arguments reach
Margin == 1

(* Program constants, in ticks of 5 ms *)

\* duration_s = 1.0
TakeoffDuration == 200
\* the 0.01 s cap of both sleeps
SleepCap == 2
\* the -1e9 sentinel of t_last
FarPast == -1000000000
\* next_ka = None
NoKa == -1

-----------------------------------------------------------------------------
(* ufo_protocol.py *)

RECURSIVE XorBits(_, _, _)
XorBits(a, b, n) ==
    IF n = 0 THEN 0
    ELSE (((a % 2) + (b % 2)) % 2) + (2 * XorBits(a \div 2, b \div 2, n - 1))

\* a ^ b on non-negative integers below 2^16
Xor(a, b) == XorBits(a, b, 16)

\* x & 0xFF
And255(x) == x % 256

KEEPALIVE_0101 == <<1, 1>>

InU8(x) == 0 <= x /\ x <= 255

clamp_u8(x) == IF x < 0 THEN 0 ELSE IF x > 255 THEN 255 ELSE x

\* u8 as a saturating conversion: never raises
u8_clamping(x) == [ok |-> TRUE, v |-> clamp_u8(x)]

\* u8 returns x or raises ValueError
u8(x) == [ok |-> InU8(x), v |-> x]

\* the result of a call that raised ValueError for the value bad
Raised(bad) == [ok |-> FALSE, pkt |-> <<>>, v |-> bad]

\* axis_to_extreme with the positive input winning when both are held
axis_to_extreme_posWins(pos_on, neg_on, center) ==
    IF ~u8(center).ok THEN Raised(center)
    ELSE IF pos_on THEN [ok |-> TRUE, pkt |-> <<>>, v |-> 255]
    ELSE IF neg_on THEN [ok |-> TRUE, pkt |-> <<>>, v |-> 0]
    ELSE [ok |-> TRUE, pkt |-> <<>>, v |-> center]

axis_to_extreme(pos_on, neg_on, center) ==
    IF ~u8(center).ok THEN Raised(center)
    ELSE IF pos_on /\ ~neg_on THEN [ok |-> TRUE, pkt |-> <<>>, v |-> 255]
    ELSE IF neg_on /\ ~pos_on THEN [ok |-> TRUE, pkt |-> <<>>, v |-> 0]
    ELSE [ok |-> TRUE, pkt |-> <<>>, v |-> center]

\* build_analog_with_flags with the flags byte left out of the checksum
build_analog_with_flags_chk4(c1, c2, thr, c4, flags) ==
    IF ~u8(c1).ok THEN Raised(c1)
    ELSE IF ~u8(c2).ok THEN Raised(c2)
    ELSE IF ~u8(thr).ok THEN Raised(thr)
    ELSE IF ~u8(c4).ok THEN Raised(c4)
    ELSE IF ~u8(flags).ok THEN Raised(flags)
    ELSE LET chk == And255(Xor(Xor(Xor(c1, c2), thr), c4))
         IN  [ok |-> TRUE, v |-> 0,
              pkt |-> <<3, 102, c1, c2, thr, c4, flags, chk, 153>>]

build_analog_with_flags(c1, c2, thr, c4, flags) ==
    IF ~u8(c1).ok THEN Raised(c1)
    ELSE IF ~u8(c2).ok THEN Raised(c2)
    ELSE IF ~u8(thr).ok THEN Raised(thr)
    ELSE IF ~u8(c4).ok THEN Raised(c4)
    ELSE IF ~u8(flags).ok THEN Raised(flags)
    ELSE LET b1 == u8(c1).v
             b2 == u8(c2).v
             b3 == u8(thr).v
             b4 == u8(c4).v
             b5 == u8(flags).v
             chk == And255(Xor(Xor(Xor(Xor(b1, b2), b3), b4), b5))
         IN  [ok |-> TRUE, v |-> 0,
              pkt |-> <<3, 102, b1, b2, b3, b4, b5, chk, 153>>]

-----------------------------------------------------------------------------
(* ufo_input_windows.py *)

\* Characters are named by strings: "NUL" is \x00, "E0" is \xe0, "ESC" is
\* \x1b, "UP" "DOWN" "LEFT" "RIGHT" are the arrow glyphs; every other name is
\* the character itself.

\* the token read_key returns when it returns None
None == "None"

\* the {"H": "up", ...}.get(ext) of an extended key code
ExtToken(ext) ==
    CASE ext = "H" -> "up"
      [] ext = "P" -> "down"
      [] ext = "K" -> "left"
      [] ext = "M" -> "right"
      [] OTHER -> None

\* the {"A": "up", ...}.get(ch3) of an ANSI escape sequence
AnsiToken(ch3) ==
    CASE ch3 = "A" -> "up"
      [] ch3 = "B" -> "down"
      [] ch3 = "C" -> "right"
      [] ch3 = "D" -> "left"
      [] OTHER -> None

\* ch.lower() on the characters of the model
Lower(ch) ==
    CASE ch = "W" -> "w"
      [] ch = "A" -> "a"
      [] ch = "S" -> "s"
      [] ch = "D" -> "d"
      [] OTHER -> ch

\* read_key returning the lowered character where it returns None
PlainToken_other(ch) ==
    CASE ch = "UP" -> "up"
      [] ch = "DOWN" -> "down"
      [] ch = "LEFT" -> "left"
      [] ch = "RIGHT" -> "right"
      [] ch \in {"q", "Q"} -> "quit"
      [] ch \in {"e", "E"} -> "e"
      [] ch \in {"r", "R"} -> "r"
      [] OTHER -> Lower(ch)

\* the token of a character that starts no sequence
PlainToken(ch) ==
    CASE ch = "UP" -> "up"
      [] ch = "DOWN" -> "down"
      [] ch = "LEFT" -> "left"
      [] ch = "RIGHT" -> "right"
      [] ch \in {"q", "Q"} -> "quit"
      [] ch \in {"e", "E"} -> "e"
      [] ch \in {"r", "R"} -> "r"
      [] Lower(ch) \in {"w", "a", "s", "d"} -> Lower(ch)
      [] OTHER -> None

\* One call of read_key on the console buffer buf: the token returned, the
\* number of characters it took from the buffer, and whether the call blocks
\* in getwch (an extended-key prefix whose second character has not arrived).
read_key(buf) ==
    IF Len(buf) = 0 THEN [tok |-> None, n |-> 0, blocks |-> FALSE]
    ELSE IF buf[1] \in {"NUL", "E0"} THEN
        IF Len(buf) < 2 THEN [tok |-> None, n |-> 1, blocks |-> TRUE]
        ELSE [tok |-> ExtToken(buf[2]), n |-> 2, blocks |-> FALSE]
    ELSE IF buf[1] = "ESC" THEN
        IF Len(buf) >= 2 THEN
            IF buf[2] \in {"[", "O"} /\ Len(buf) >= 3
            THEN [tok |-> AnsiToken(buf[3]), n |-> 3, blocks |-> FALSE]
            ELSE [tok |-> "quit", n |-> 2, blocks |-> FALSE]
        ELSE [tok |-> "quit", n |-> 1, blocks |-> FALSE]
    ELSE [tok |-> PlainToken(buf[1]), n |-> 1, blocks |-> FALSE]

\* buf without its first n characters
Drop(buf, n) == SubSeq(buf, n + 1, Len(buf))

-----------------------------------------------------------------------------
(* ufo_config.py: validated configurations, periods and hold in ticks *)

\* the defaults of parse_args: 20 Hz, no keepalive, hold 180 ms, centers 0x80, base 0
DefaultArgs ==
    [analog_period |-> 10, send_keepalive |-> FALSE, ka_period |-> 200, hold |-> 36,
     c1_center |-> 128, c2_center |-> 128, c4_center |-> 128, thr_base |-> 0]

\* --rate-hz 66.67 --send-keepalive --keepalive-hz 50 --hold-ms 20
\* --c1-center 0x70 --c2-center 0x90 --c4-center 0x10 --thr-base 0x40
FastArgs ==
    [analog_period |-> 3, send_keepalive |-> TRUE, ka_period |-> 4, hold |-> 4,
     c1_center |-> 112, c2_center |-> 144, c4_center |-> 16, thr_base |-> 64]

\* --rate-hz 10 --send-keepalive --keepalive-hz 5 --hold-ms 30
\* --c1-center 0x20 --c2-center 0x30 --c4-center 0xF0 --thr-base 0x50
SlowArgs ==
    [analog_period |-> 20, send_keepalive |-> TRUE, ka_period |-> 40, hold |-> 6,
     c1_center |-> 32, c2_center |-> 48, c4_center |-> 240, thr_base |-> 80]

\* --rate-hz 0.5: one analog frame every 2 s
CrawlArgs ==
    [analog_period |-> 400, send_keepalive |-> FALSE, ka_period |-> 200, hold |-> 36,
     c1_center |-> 128, c2_center |-> 128, c4_center |-> 128, thr_base |-> 16]

\* The runs explored: a configuration, the characters the operator may type
\* one by one and how many more than MaxKeys, and the character sequence a
\* terminal sends for one press of an arrow key (its characters reach the
\* console buffer one at a time).
Scenarios ==
    {[args |-> DefaultArgs, keys |-> {}, extra |-> 0, wire |-> <<>>, held |-> FALSE],
     [args |-> DefaultArgs, keys |-> {"w", "e"}, extra |-> 0, wire |-> <<>>, held |-> FALSE],
     [args |-> SlowArgs, keys |-> {"q", "e", "r"}, extra |-> 0, wire |-> <<>>, held |-> FALSE],
     [args |-> FastArgs, keys |-> {"w", "s", "r"}, extra |-> 0, wire |-> <<>>, held |-> FALSE],
     [args |-> FastArgs, keys |-> {"a", "d", "x"}, extra |-> 0, wire |-> <<>>, held |-> FALSE],
     [args |-> FastArgs, keys |-> {"UP", "DOWN", "W"}, extra |-> 0, wire |-> <<>>, held |-> FALSE],
     [args |-> FastArgs, keys |-> {"E0", "K", "M"}, extra |-> 0, wire |-> <<>>, held |-> FALSE],
     [args |-> FastArgs, keys |-> {"x", "w", "q"}, extra |-> 0, wire |-> <<>>, held |-> FALSE],
     [args |-> FastArgs, keys |-> {"ESC", "[", "A"}, extra |-> 1, wire |-> <<>>, held |-> FALSE],
     [args |-> FastArgs, keys |-> {}, extra |-> 0, wire |-> <<"ESC", "[", "A">>, held |-> FALSE],
     [args |-> SlowArgs, keys |-> {}, extra |-> 0, wire |-> <<"ESC", "O", "D">>, held |-> FALSE],
     [args |-> CrawlArgs, keys |-> {"e", "w"}, extra |-> 0, wire |-> <<>>, held |-> FALSE]}

\* The runs explored for progress: among those above, the ones that take every
\* step of the loop, and two runs in which the operator holds a key down, so
\* that key repeat sends its character over and over: "w", and the takeoff
\* key "e".
FairScenarios ==
    {[args |-> DefaultArgs, keys |-> {}, extra |-> 0, wire |-> <<>>, held |-> FALSE],
     [args |-> SlowArgs, keys |-> {"q", "e", "r"}, extra |-> 0, wire |-> <<>>, held |-> FALSE],
     [args |-> FastArgs, keys |-> {"w", "s", "r"}, extra |-> 0, wire |-> <<>>, held |-> FALSE],
     [args |-> SlowArgs, keys |-> {}, extra |-> 0, wire |-> <<"ESC", "O", "D">>, held |-> FALSE],
     [args |-> CrawlArgs, keys |-> {"e", "w"}, extra |-> 0, wire |-> <<>>, held |-> FALSE],
     [args |-> FastArgs, keys |-> {}, extra |-> 0, wire |-> <<"w">>, held |-> TRUE],
     [args |-> SlowArgs, keys |-> {}, extra |-> 0, wire |-> <<"e">>, held |-> TRUE]}



-----------------------------------------------------------------------------
(* ufo_controller.py *)

Inputs == {"w", "a", "s", "d", "up", "down", "left", "right"}

Min(a, b) == IF a <= b THEN a ELSE b
Max(a, b) == IF a >= b THEN a ELSE b

\* the dict d after d[k] = v
Put(d, k, v) == [x \in DOMAIN d \cup {k} |-> IF x = k THEN v ELSE d[x]]

\* the t_last literal of run: every input at the sentinel
AllReleased == [k \in Inputs |-> FarPast]

\* is_on with the boundary excluded
is_on_strict(name, t) == (t - t_last[name]) < args.hold

\* run's closure is_on
is_on(name, t) == (t - t_last[name]) <= args.hold

\* the burst's packet built with the default flags of build_analog_with_flags
TakeoffPkt_flags0 ==
    build_analog_with_flags(args.c1_center, args.c2_center, args.thr_base,
                            args.c4_center, 0)

\* the packet of send_takeoff_burst
TakeoffPkt ==
    build_analog_with_flags(args.c1_center, args.c2_center, args.thr_base,
                            args.c4_center, 1)

\* the throttle without the override of the held "w"
Throttle_noOverride(h) ==
    axis_to_extreme("up" \in h, "down" \in h, args.thr_base)

\* the throttle with the override of the held "w" set to 0x100
Throttle_over(h) ==
    IF "w" \in h THEN [ok |-> TRUE, pkt |-> <<>>, v |-> 256]
    ELSE axis_to_extreme("up" \in h, "down" \in h, args.thr_base)

\* the throttle of the analog frame for the held set h
Throttle(h) ==
    IF "w" \in h THEN [ok |-> TRUE, pkt |-> <<>>, v |-> 255]
    ELSE axis_to_extreme("up" \in h, "down" \in h, args.thr_base)

\* the analog frame with c4 and the throttle passed in each other's place
AnalogPkt_swapped(h) ==
    LET c1 == axis_to_extreme("w" \in h, "s" \in h, args.c1_center)
        c2 == axis_to_extreme("d" \in h, "a" \in h, args.c2_center)
        c4 == axis_to_extreme("right" \in h, "left" \in h, args.c4_center)
        thr == IF "w" \in h THEN [ok |-> TRUE, pkt |-> <<>>, v |-> 255]
               ELSE axis_to_extreme("up" \in h, "down" \in h, args.thr_base)
    IN  build_analog_with_flags(clamp_u8(c1.v), clamp_u8(c2.v),
                                clamp_u8(c4.v), clamp_u8(thr.v), 0)

\* the packet of the steady-state analog frame for the held set h
AnalogPkt(h) ==
    LET c1 == axis_to_extreme("w" \in h, "s" \in h, args.c1_center)
        c2 == axis_to_extreme("d" \in h, "a" \in h, args.c2_center)
        c4 == axis_to_extreme("right" \in h, "left" \in h, args.c4_center)
        thr == Throttle(h)
    IN  IF ~c1.ok THEN c1
        ELSE IF ~c2.ok THEN c2
        ELSE IF ~c4.ok THEN c4
        ELSE IF ~thr.ok THEN thr
        ELSE build_analog_with_flags(clamp_u8(c1.v), clamp_u8(c2.v),
                                     clamp_u8(thr.v), clamp_u8(c4.v), 0)

\* time.sleep(max(0.0, min(0.01, t - n)))
SleepArg(t, n) == Max(0, Min(SleepCap, t - n))

NoCall == [fn |-> "none", a |-> <<>>, pos |-> FALSE, neg |-> FALSE,
           res |-> [ok |-> TRUE, pkt |-> <<>>, v |-> 0]]

\* run is entered with one of the runs of S chosen
InitOf(S) ==
    /\ \E sc \in S :
          /\ args = sc.args
          /\ keys = sc.keys
          /\ budget = MaxKeys + sc.extra
          /\ wire = [seq |-> sc.wire, n |-> 0, held |-> sc.held]
    /\ pc = "start"
    /\ clock = 0
    /\ sock = "none"
    /\ ret = "none"
    /\ kb = <<>>
    /\ typed = 0
    /\ fresh = TRUE
    /\ t_last = AllReleased
    /\ now = 0
    /\ next_analog = 0
    /\ next_ka = NoKa
    /\ did = FALSE
    /\ t0 = 0
    /\ horizon = 0
    /\ burst = [end |-> 0, next |-> 0, from |-> "none", began |-> 0, inline |-> 0]
    /\ on = {}
    /\ out = <<>>
    /\ slept = 0
    /\ pend = 0
    /\ drained = <<>>
    /\ t_obs = AllReleased
    /\ sent = [analog |-> 0, ka |-> 0, burst |-> 0]
    /\ call = NoCall

Init == InitOf(Scenarios)

\* an exception of sendto is recorded but does not leave the loop: the
\* statement that failed is executed again
Raise_retry(inTry) ==
    /\ pc' = pc
    /\ ret' = "raised"
    /\ sock' = sock
    /\ out' = <<>>
    /\ slept' = 0

\* an exception leaves run: the finally clause closes the socket only when the
\* exception is raised inside the try statement (not in the startup burst)
Raise(inTry) ==
    /\ pc' = "failed"
    /\ ret' = "raised"
    /\ sock' = IF inTry THEN "closed" ELSE sock
    /\ out' = <<>>
    /\ slept' = 0

\* what every step of the drain loop does with the console buffer: one call of
\* read_key, which waits in getwch while an extended-key prefix is alone
Poll ==
    /\ pc = "drain"
    /\ ~read_key(kb).blocks
    /\ kb' = Drop(kb, read_key(kb).n)
    /\ pend' = Max(0, pend - read_key(kb).n)
    /\ drained' = IF read_key(kb).tok = None THEN drained
                  ELSE Append(drained, read_key(kb).tok)
    /\ out' = <<>>
    /\ slept' = 0

\* the inputs is_on reports held at time t
HeldAt(t) == {k \in Inputs : is_on(k, t)}

\* run, line 144: the nearer deadline
NearestDeadline == IF next_ka = NoKa THEN next_analog ELSE Min(next_analog, next_ka)

\* a key is held down and the drain loop is two burst lengths or more past
\* the time the iteration read
Stale == wire.held /\ pc = "drain" /\ clock - now >= 2 * TakeoffDuration

\* takeoff keys pressed so far: the bursts begun by one and those still unread
TakeoffsTyped ==
    burst.inline + Cardinality({i \in DOMAIN kb : kb[i] \in {"e", "E"}})

\* the arguments the codec is called with: around both ends of 0..255 and
\* around 0x80
Samples == ((0 - Margin)..Margin) \cup {127, 128} \cup ((255 - Margin)..(255 + Margin))

(* run and send_takeoff_burst, step by step *)

\* The operator presses a key: one character enters the console buffer. The
\* program looks at the buffer only in its drain loop, so a character typed
\* while it sleeps, sends or runs a burst is first seen by the next drain: the
\* model types it when an iteration is about to begin, if time has passed since
\* the last drain ended, or while read_key waits in getwch.
Type ==
    /\ \/ pc = "top" /\ fresh
       \/ pc = "drain" /\ read_key(kb).blocks
    /\ typed < budget
    /\ \E ch \in keys :
          /\ ch \in {"e", "E"} => TakeoffsTyped < MaxTakeoffs
          /\ kb' = Append(kb, ch)
    /\ typed' = typed + 1
    /\ UNCHANGED <<args, keys, budget, pc, clock, sock, ret, wire, fresh,
                   t_last, now, next_analog, next_ka, did, t0, horizon,
                   burst, on, out, slept, pend, drained, t_obs, sent, call>>

\* The next character of an arrow key's sequence reaches the console buffer,
\* at the same points of the run as a typed character: the sequence is in the
\* buffer whole, or only in part, when the drain polls it.
Arrive ==
    /\ \/ pc = "top" /\ fresh
       \/ pc = "drain" /\ read_key(kb).blocks
    /\ ~wire.held
    /\ wire.n < Len(wire.seq)
    /\ kb' = Append(kb, wire.seq[wire.n + 1])
    /\ wire' = [wire EXCEPT !.n = @ + 1]
    /\ UNCHANGED <<args, keys, budget, pc, clock, sock, ret, typed, fresh,
                   t_last, now, next_analog, next_ka, did, t0, horizon,
                   burst, on, out, slept, pend, drained, t_obs, sent, call>>

\* Key repeat: the character of the key the operator holds down enters the
\* empty console buffer, before an iteration begins (up to the horizon) or by
\* the time an inline burst returns to the drain loop. The operator may let go
\* at any time.
Repeat ==
    /\ wire.held
    /\ kb = <<>>
    /\ \/ pc = "top" /\ fresh /\ clock < horizon
       \/ pc = "burst" /\ burst.from = "drain" /\ clock >= burst.end
    /\ kb' = wire.seq
    /\ UNCHANGED <<args, keys, budget, pc, clock, sock, ret, wire, typed,
                   fresh, t_last, now, next_analog, next_ka, did, t0,
                   horizon, burst, on, out, slept, pend, drained, t_obs,
                   sent, call>>

\* The clock is set back by one burst length and the oldest token of the
\* iteration is dropped from the record: the drain loop reads no time, and
\* times more than a burst past the iteration's now are not told apart.
Forget ==
    /\ Stale
    /\ clock' = clock - TakeoffDuration
    /\ horizon' = horizon - TakeoffDuration
    /\ drained' = Tail(drained)
    /\ UNCHANGED <<args, keys, budget, pc, sock, ret, kb, wire, typed, fresh,
                   t_last, now, next_analog, next_ka, did, t0, burst, on,
                   out, slept, pend, t_obs, sent, call>>

\* run up to the call of the startup burst: the socket is created and bound,
\* and send_takeoff_burst reads the clock for its end and its first deadline
Start ==
    /\ pc = "start"
    /\ sock' = "open"
    /\ burst' = [burst EXCEPT !.end = clock + TakeoffDuration, !.next = clock,
                              !.from = "startup", !.began = clock]
    /\ sent' = [sent EXCEPT !.burst = 0]
    /\ pc' = "burst"
    /\ out' = <<>>
    /\ slept' = 0
    /\ UNCHANGED <<args, keys, budget, clock, ret, kb, wire, typed, fresh,
                   t_last, now, next_analog, next_ka, did, t0, horizon, on,
                   pend, drained, t_obs, call>>

\* send_takeoff_burst: now >= t_takeoff_end, the burst returns. The startup
\* burst returns to run, which builds t_last and sets t0 and both deadlines;
\* an inline burst returns to the drain loop (continue).
BurstReturn ==
    /\ pc = "burst"
    /\ clock >= burst.end
    /\ out' = <<>>
    /\ slept' = 0
    /\ IF burst.from = "startup"
       THEN /\ pc' = "top"
            /\ t_last' = AllReleased
            /\ t0' = clock
            /\ next_analog' = clock
            /\ next_ka' = IF args.send_keepalive THEN clock ELSE NoKa
            /\ horizon' = clock + MaxSteady
       ELSE /\ pc' = "drain"
            /\ horizon' = horizon + (clock - burst.began)
            /\ UNCHANGED <<t_last, t0, next_analog, next_ka>>
    /\ UNCHANGED <<args, keys, budget, clock, sock, ret, kb, wire, typed,
                   fresh, now, did, burst, on, pend, drained, t_obs, sent,
                   call>>

\* the burst sending a due frame without the test of the end of the burst
BurstSend_late ==
    /\ pc = "burst"
    /\ clock >= burst.next
    /\ \/ /\ TakeoffPkt.ok
          /\ out' = TakeoffPkt.pkt
          /\ slept' = 0
          /\ burst' = [burst EXCEPT !.next = @ + args.analog_period]
          /\ sent' = [sent EXCEPT !.burst = @ + 1]
          /\ UNCHANGED <<pc, ret, sock>>
       \/ /\ Raise(burst.from = "drain")
          /\ UNCHANGED <<burst, sent>>
    /\ UNCHANGED <<args, keys, budget, clock, kb, wire, typed, fresh, t_last,
                   now, next_analog, next_ka, did, t0, horizon, on, pend,
                   drained, t_obs, call>>

\* send_takeoff_burst: now >= next_takeoff, one takeoff frame is built and
\* sent (sendto may raise) and the deadline advances by one period
BurstSend ==
    /\ pc = "burst"
    /\ clock < burst.end
    /\ clock >= burst.next
    /\ \/ /\ TakeoffPkt.ok
          /\ out' = TakeoffPkt.pkt
          /\ slept' = 0
          /\ burst' = [burst EXCEPT !.next = @ + args.analog_period]
          /\ sent' = [sent EXCEPT !.burst = @ + 1]
          /\ UNCHANGED <<pc, ret, sock>>
       \/ /\ Raise(burst.from = "drain")
          /\ UNCHANGED <<burst, sent>>
    /\ UNCHANGED <<args, keys, budget, clock, kb, wire, typed, fresh, t_last,
                   now, next_analog, next_ka, did, t0, horizon, on, pend,
                   drained, t_obs, call>>

\* send_takeoff_burst: nothing is due, the burst sleeps
BurstSleep ==
    /\ pc = "burst"
    /\ clock < burst.end
    /\ clock < burst.next
    /\ slept' = SleepArg(burst.next, clock)
    /\ clock' = clock + slept'
    /\ fresh' = TRUE
    /\ out' = <<>>
    /\ UNCHANGED <<args, keys, budget, pc, sock, ret, kb, wire, typed,
                   t_last, now, next_analog, next_ka, did, t0, horizon,
                   burst, on, pend, drained, t_obs, sent, call>>

\* run, line 88: a steady-state iteration begins by reading the clock (the
\* locals w_on .. right_on of the previous iteration are dead)
LoopTop ==
    /\ pc = "top"
    /\ now' = clock
    /\ pend' = Len(kb)
    /\ drained' = <<>>
    /\ on' = {}
    /\ pc' = "drain"
    /\ out' = <<>>
    /\ slept' = 0
    /\ UNCHANGED <<args, keys, budget, clock, sock, ret, kb, wire, typed,
                   fresh, t_last, next_analog, next_ka, did, t0, horizon,
                   burst, t_obs, sent, call>>

\* k is None: the drain loop ends
DrainNone ==
    /\ Poll
    /\ read_key(kb).tok = None
    /\ pc' = "analog"
    /\ fresh' = FALSE
    /\ UNCHANGED <<args, keys, budget, clock, sock, ret, wire, typed, t_last,
                   now, next_analog, next_ka, did, t0, horizon, burst, on,
                   t_obs, sent, call>>

\* quit handled like None: the drain loop ends and the iteration goes on
DrainQuit_break ==
    /\ Poll
    /\ read_key(kb).tok = "quit"
    /\ pc' = "analog"
    /\ UNCHANGED <<args, keys, budget, clock, sock, ret, wire, typed, fresh,
                   t_last, now, next_analog, next_ka, did, t0, horizon,
                   burst, on, t_obs, sent, call>>

\* k == "quit": run returns 0 through the finally clause
DrainQuit ==
    /\ Poll
    /\ read_key(kb).tok = "quit"
    /\ pc' = "done"
    /\ ret' = "0"
    /\ sock' = "closed"
    /\ UNCHANGED <<args, keys, budget, clock, wire, typed, fresh, t_last,
                   now, next_analog, next_ka, did, t0, horizon, burst, on,
                   t_obs, sent, call>>

\* k == "e": an inline takeoff burst begins (the bursts are counted up to
\* MaxTakeoffs)
DrainTakeoff ==
    /\ Poll
    /\ read_key(kb).tok = "e"
    /\ burst' = [end |-> clock + TakeoffDuration, next |-> clock, from |-> "drain",
                 began |-> clock, inline |-> Min(burst.inline + 1, MaxTakeoffs)]
    /\ sent' = [sent EXCEPT !.burst = 0]
    /\ pc' = "burst"
    /\ UNCHANGED <<args, keys, budget, clock, sock, ret, wire, typed, fresh,
                   t_last, now, next_analog, next_ka, did, t0, horizon, on,
                   t_obs, call>>

\* the reset leaves the drain loop (break instead of continue)
DrainReset_break ==
    /\ Poll
    /\ read_key(kb).tok = "r"
    /\ t_last' = [k \in Inputs |-> FarPast]
    /\ pc' = "analog"
    /\ UNCHANGED <<args, keys, budget, clock, sock, ret, wire, typed, fresh,
                   now, next_analog, next_ka, did, t0, horizon, burst, on,
                   t_obs, sent, call>>

\* k == "r": every entry of t_last goes back to the sentinel
DrainReset ==
    /\ Poll
    /\ read_key(kb).tok = "r"
    /\ t_last' = [k \in DOMAIN t_last |-> FarPast]
    /\ UNCHANGED <<args, keys, budget, pc, clock, sock, ret, wire, typed,
                   fresh, now, next_analog, next_ka, did, t0, horizon, burst,
                   on, t_obs, sent, call>>

\* any other token: t_last[k] = now
DrainRecord ==
    /\ Poll
    /\ read_key(kb).tok \notin {None, "quit", "e", "r"}
    /\ t_last' = Put(t_last, read_key(kb).tok, now)
    /\ t_obs' = Put(t_obs, read_key(kb).tok, clock)
    /\ UNCHANGED <<args, keys, budget, pc, clock, sock, ret, wire, typed,
                   fresh, now, next_analog, next_ka, did, t0, horizon, burst,
                   on, sent, call>>

\* the analog timer with its deadline reset to one period after now
Analog_fromNow ==
    /\ pc = "analog"
    /\ IF now >= next_analog
       THEN /\ on' = HeldAt(now)
            /\ \/ /\ AnalogPkt(on').ok
                  /\ out' = AnalogPkt(on').pkt
                  /\ slept' = 0
                  /\ next_analog' = now + args.analog_period
                  /\ sent' = [sent EXCEPT !.analog = @ + 1]
                  /\ did' = TRUE
                  /\ pc' = "ka"
                  /\ UNCHANGED <<ret, sock>>
               \/ /\ Raise(TRUE)
                  /\ UNCHANGED <<next_analog, did, sent>>
       ELSE /\ did' = FALSE
            /\ pc' = "ka"
            /\ out' = <<>>
            /\ slept' = 0
            /\ UNCHANGED <<on, next_analog, ret, sock, sent>>
    /\ UNCHANGED <<args, keys, budget, clock, kb, wire, typed, fresh, t_last,
                   now, next_ka, t0, horizon, burst, pend, drained, t_obs,
                   call>>

\* the analog timer firing only after its deadline, not at it
Analog_strict ==
    /\ pc = "analog"
    /\ IF now > next_analog
       THEN /\ on' = HeldAt(now)
            /\ \/ /\ AnalogPkt(on').ok
                  /\ out' = AnalogPkt(on').pkt
                  /\ slept' = 0
                  /\ next_analog' = next_analog + args.analog_period
                  /\ sent' = [sent EXCEPT !.analog = @ + 1]
                  /\ did' = TRUE
                  /\ pc' = "ka"
                  /\ UNCHANGED <<ret, sock>>
               \/ /\ Raise(TRUE)
                  /\ UNCHANGED <<next_analog, did, sent>>
       ELSE /\ did' = FALSE
            /\ pc' = "ka"
            /\ out' = <<>>
            /\ slept' = 0
            /\ UNCHANGED <<on, next_analog, ret, sock, sent>>
    /\ UNCHANGED <<args, keys, budget, clock, kb, wire, typed, fresh, t_last,
                   now, next_ka, t0, horizon, burst, pend, drained, t_obs,
                   call>>

\* run, lines 107-136: did = False, then the analog timer
Analog ==
    /\ pc = "analog"
    /\ IF now >= next_analog
       THEN /\ on' = HeldAt(now)
            /\ \/ /\ AnalogPkt(on').ok
                  /\ out' = AnalogPkt(on').pkt
                  /\ slept' = 0
                  /\ next_analog' = next_analog + args.analog_period
                  /\ sent' = [sent EXCEPT !.analog = @ + 1]
                  /\ did' = TRUE
                  /\ pc' = "ka"
                  /\ UNCHANGED <<ret, sock>>
               \/ /\ Raise(TRUE)
                  /\ UNCHANGED <<next_analog, did, sent>>
       ELSE /\ did' = FALSE
            /\ pc' = "ka"
            /\ out' = <<>>
            /\ slept' = 0
            /\ UNCHANGED <<on, next_analog, ret, sock, sent>>
    /\ UNCHANGED <<args, keys, budget, clock, kb, wire, typed, fresh, t_last,
                   now, next_ka, t0, horizon, burst, pend, drained, t_obs,
                   call>>

\* the keepalive timer without the test that keepalives are enabled
Keepalive_unconditional ==
    /\ pc = "ka"
    /\ IF now >= next_ka
       THEN \/ /\ out' = KEEPALIVE_0101
               /\ slept' = 0
               /\ next_ka' = next_ka + args.ka_period
               /\ sent' = [sent EXCEPT !.ka = @ + 1]
               /\ did' = TRUE
               /\ pc' = "sleep"
               /\ UNCHANGED <<ret, sock>>
            \/ /\ Raise(TRUE)
               /\ UNCHANGED <<next_ka, did, sent>>
       ELSE /\ pc' = "sleep"
            /\ out' = <<>>
            /\ slept' = 0
            /\ UNCHANGED <<next_ka, did, ret, sock, sent>>
    /\ UNCHANGED <<args, keys, budget, clock, kb, wire, typed, fresh, t_last,
                   now, next_analog, t0, horizon, burst, on, pend, drained,
                   t_obs, call>>

\* run, lines 138-141: the keepalive timer
Keepalive ==
    /\ pc = "ka"
    /\ IF next_ka # NoKa /\ now >= next_ka
       THEN \/ /\ out' = KEEPALIVE_0101
               /\ slept' = 0
               /\ next_ka' = next_ka + args.ka_period
               /\ sent' = [sent EXCEPT !.ka = @ + 1]
               /\ did' = TRUE
               /\ pc' = "sleep"
               /\ UNCHANGED <<ret, sock>>
            \/ /\ Raise(TRUE)
               /\ UNCHANGED <<next_ka, did, sent>>
       ELSE /\ pc' = "sleep"
            /\ out' = <<>>
            /\ slept' = 0
            /\ UNCHANGED <<next_ka, did, ret, sock, sent>>
    /\ UNCHANGED <<args, keys, budget, clock, kb, wire, typed, fresh, t_last,
                   now, next_analog, t0, horizon, burst, on, pend, drained,
                   t_obs, call>>

\* run, lines 143-145: the loop sleeps when no timer fired. The run is
\* followed up to the horizon, and beyond it for as long as a deadline is
\* overdue on the clock.
Sleep ==
    /\ pc = "sleep"
    /\ IF ~did
       THEN /\ clock < horizon \/ clock >= NearestDeadline
            /\ slept' = SleepArg(NearestDeadline, now)
            /\ \E j \in 0..MaxJitter : clock' = clock + slept' + j
            /\ fresh' = TRUE
       ELSE /\ slept' = 0
            /\ UNCHANGED <<clock, fresh>>
    /\ pc' = "top"
    /\ out' = <<>>
    /\ UNCHANGED <<args, keys, budget, sock, ret, kb, wire, typed, t_last,
                   now, next_analog, next_ka, did, t0, horizon, burst, on,
                   pend, drained, t_obs, sent, call>>

\* a call build_analog_with_flags(c1, c2, thr, c4, flags) on sampled arguments
CallBuild ==
    /\ pc = "codec"
    /\ call = NoCall
    /\ \E c1 \in Samples, c2 \in Samples, thr \in Samples, c4 \in Samples, fl \in Samples :
          call' = [fn |-> "build", a |-> <<c1, c2, thr, c4, fl>>, pos |-> FALSE,
                   neg |-> FALSE, res |-> build_analog_with_flags(c1, c2, thr, c4, fl)]
    /\ UNCHANGED <<args, keys, budget, pc, clock, sock, ret, kb, wire, typed,
                   fresh, t_last, now, next_analog, next_ka, did, t0,
                   horizon, burst, on, out, slept, pend, drained, t_obs,
                   sent>>

\* a call axis_to_extreme(pos_on, neg_on, center) on sampled arguments
CallAxis ==
    /\ pc = "codec"
    /\ call = NoCall
    /\ \E p \in BOOLEAN, n \in BOOLEAN, c \in (0 - Margin)..(255 + Margin) :
          call' = [fn |-> "axis", a |-> <<c>>, pos |-> p, neg |-> n,
                   res |-> axis_to_extreme(p, n, c)]
    /\ UNCHANGED <<args, keys, budget, pc, clock, sock, ret, kb, wire, typed,
                   fresh, t_last, now, next_analog, next_ka, did, t0,
                   horizon, burst, on, out, slept, pend, drained, t_obs,
                   sent>>

\* a call clamp_u8(x) on sampled arguments
CallClamp ==
    /\ pc = "codec"
    /\ call = NoCall
    /\ \E x \in (0 - 8 * (Margin + 1))..(255 + 8 * (Margin + 1)) :
          call' = [fn |-> "clamp", a |-> <<x>>, pos |-> FALSE, neg |-> FALSE,
                   res |-> [ok |-> TRUE, pkt |-> <<>>, v |-> clamp_u8(x)]]
    /\ UNCHANGED <<args, keys, budget, pc, clock, sock, ret, kb, wire, typed,
                   fresh, t_last, now, next_analog, next_ka, did, t0,
                   horizon, burst, on, out, slept, pend, drained, t_obs,
                   sent>>

\* a call u8(x) on sampled arguments
CallU8 ==
    /\ pc = "codec"
    /\ call = NoCall
    /\ \E x \in (0 - Margin)..(255 + Margin) :
          call' = [fn |-> "u8", a |-> <<x>>, pos |-> FALSE, neg |-> FALSE,
                   res |-> [ok |-> u8(x).ok, pkt |-> <<>>, v |-> u8(x).v]]
    /\ UNCHANGED <<args, keys, budget, pc, clock, sock, ret, kb, wire, typed,
                   fresh, t_last, now, next_analog, next_ka, did, t0,
                   horizon, burst, on, out, slept, pend, drained, t_obs,
                   sent>>

Next ==
    \/ Type
    \/ Arrive
    \/ Start
    \/ BurstReturn
    \/ BurstSend
    \/ BurstSleep
    \/ LoopTop
    \/ DrainNone
    \/ DrainQuit
    \/ DrainTakeoff
    \/ DrainReset
    \/ DrainRecord
    \/ Analog
    \/ Keepalive
    \/ Sleep

Spec == Init /\ [][Next]_vars

\* The loop under key repeat. run is one sequential program that keeps
\* running, so a step of it that can be taken is eventually taken. While a key
\* is held the clock is kept within two burst lengths of the iteration's time.
NextFair ==
    \/ Type
    \/ Arrive
    \/ Repeat
    \/ Start
    \/ BurstReturn
    \/ BurstSend
    \/ BurstSleep
    \/ LoopTop
    \/ Forget
    \/ ~Stale /\ DrainNone
    \/ ~Stale /\ DrainQuit
    \/ ~Stale /\ DrainTakeoff
    \/ ~Stale /\ DrainReset
    \/ ~Stale /\ DrainRecord
    \/ Analog
    \/ Keepalive
    \/ Sleep

\* the steps of run and send_takeoff_burst other than the two sends of a frame
Proceed ==
    \/ Start
    \/ BurstReturn
    \/ BurstSleep
    \/ LoopTop
    \/ Forget
    \/ ~Stale /\ DrainNone
    \/ ~Stale /\ DrainQuit
    \/ ~Stale /\ DrainTakeoff
    \/ ~Stale /\ DrainReset
    \/ ~Stale /\ DrainRecord
    \/ Keepalive
    \/ Sleep

\* send_takeoff_burst, line 33: a frame of the burst is due
BurstSendDue == pc = "burst" /\ clock < burst.end /\ clock >= burst.next

\* Weak fairness of the whole program. The console (Type, Arrive, Repeat) is
\* under no obligation. The two sends are enabled exactly at BurstSendDue and
\* at pc = "analog"; their fairness is written out with these conditions.
FairSpec ==
    /\ InitOf(FairScenarios)
    /\ [][NextFair]_vars
    /\ WF_vars(Proceed)
    /\ ([]<>~BurstSendDue) \/ ([]<><<BurstSend>>_vars)
    /\ ([]<>(pc # "analog")) \/ ([]<><<Analog>>_vars)

\* The codec on its own: its functions are called on sampled arguments.
InitCodec ==
    /\ args = DefaultArgs
    /\ keys = {}
    /\ budget = 0
    /\ pc = "codec"
    /\ clock = 0
    /\ sock = "none"
    /\ ret = "none"
    /\ kb = <<>>
    /\ wire = [seq |-> <<>>, n |-> 0, held |-> FALSE]
    /\ typed = 0
    /\ fresh = FALSE
    /\ t_last = AllReleased
    /\ now = 0
    /\ next_analog = 0
    /\ next_ka = NoKa
    /\ did = FALSE
    /\ t0 = 0
    /\ horizon = 0
    /\ burst = [end |-> 0, next |-> 0, from |-> "none", began |-> 0, inline |-> 0]
    /\ on = {}
    /\ out = <<>>
    /\ slept = 0
    /\ pend = 0
    /\ drained = <<>>
    /\ t_obs = AllReleased
    /\ sent = [analog |-> 0, ka |-> 0, burst |-> 0]
    /\ call = NoCall

NextCodec ==
    \/ CallBuild
    \/ CallAxis
    \/ CallClamp
    \/ CallU8

SpecCodec == InitCodec /\ [][NextCodec]_vars

-----------------------------------------------------------------------------
(* Properties *)

\* bit i of the non-negative integer x
Bit(x, i) == (x \div (2 ^ i)) % 2

\* byte 8 of a control frame is the bitwise XOR of bytes 3..7: in every bit
\* position it is the parity of the five bytes' bits
ChecksumOk(p) ==
    /\ p[8] \in 0..255
    /\ \A i \in 0..7 :
          Bit(p[8], i) = (Bit(p[3], i) + Bit(p[4], i) + Bit(p[5], i) + Bit(p[6], i)
                          + Bit(p[7], i)) % 2

\* p is the control frame 03 66 c1 c2 thr c4 flags chk 99
IsFrame(p, c1, c2, thr, c4, flags) ==
    /\ Len(p) = 9
    /\ p[1] = 3 /\ p[2] = 102 /\ p[9] = 153
    /\ p[3] = c1 /\ p[4] = c2 /\ p[5] = thr /\ p[6] = c4 /\ p[7] = flags
    /\ ChecksumOk(p)

\* C1: for arguments all in 0..255, build_analog_with_flags returns the nine
\* bytes 03 66 c1 c2 thr c4 flags chk 99 with chk = c1 ^ c2 ^ thr ^ c4 ^ flags.
C1_FrameLayout ==
    (call.fn = "build" /\ \A i \in 1..5 : InU8(call.a[i]))
        => /\ call.res.ok
           /\ IsFrame(call.res.pkt, call.a[1], call.a[2], call.a[3], call.a[4], call.a[5])

\* C1 witness: build_analog_with_flags(255, 1, 128, 254, 1) returned a frame
\* whose checksum is 0x81
C1_Witness ==
    /\ call.fn = "build"
    /\ call.a = <<255, 1, 128, 254, 1>>
    /\ call.res.ok
    /\ call.res.pkt = <<3, 102, 255, 1, 128, 254, 1, 129, 153>>

\* C10: when any of the five arguments is outside 0..255,
\* build_analog_with_flags raises (for the first such argument) and returns no
\* frame: nothing is wrapped or clamped.
C10_RangeError ==
    (call.fn = "build" /\ \E i \in 1..5 : ~InU8(call.a[i]))
        => /\ ~call.res.ok
           /\ call.res.pkt = <<>>
           /\ \E i \in 1..5 :
                 /\ ~InU8(call.a[i])
                 /\ call.res.v = call.a[i]
                 /\ \A j \in 1..(i - 1) : InU8(call.a[j])

\* C10 witness: build_analog_with_flags(0, 255, 256, 0, -1) raised for 256
C10_Witness ==
    /\ call.fn = "build"
    /\ call.a = <<0, 255, 256, 0, -1>>
    /\ ~call.res.ok
    /\ call.res.v = 256

\* an inline takeoff burst is running: from the step that read "e" to the
\* step that returns from send_takeoff_burst
InlineBurst == pc = "burst" /\ burst.from = "drain"

\* p is a takeoff frame: the configured centers and base, flags 0x01
IsTakeoffFrame(p) ==
    IsFrame(p, args.c1_center, args.c2_center, args.thr_base, args.c4_center, 1)

\* C2: from the moment "e" is read until the inline burst ends, every datagram
\* sent is the takeoff frame (configured centers and base, flags 0x01),
\* whatever is held; no other frame is sent and no key token is consumed.
C2_TakeoffOnly ==
    /\ [](InlineBurst => (out = <<>> \/ IsTakeoffFrame(out)))
    /\ [][InlineBurst => /\ (out' = <<>> \/ IsTakeoffFrame(out'))
                          /\ kb' = kb
                          /\ drained' = drained
                          /\ t_last' = t_last]_vars

\* C2 witness: an inline burst has sent a takeoff frame while "w" is held
C2_Witness ==
    /\ InlineBurst
    /\ IsTakeoffFrame(out)
    /\ clock - t_last["w"] <= args.hold

\* the next call of read_key returns "quit"
QuitRead == pc = "drain" /\ ~read_key(kb).blocks /\ read_key(kb).tok = "quit"

\* C3: when the drain reads "quit", run returns 0 at once: that step sends
\* nothing and applies nothing, and afterwards nothing is sent and no token
\* behind the quit is read.
C3_QuitImmediate ==
    /\ [](pc = "done" => (ret = "0" /\ out = <<>>))
    /\ [][QuitRead => /\ pc' = "done"
                       /\ ret' = "0"
                       /\ out' = <<>>
                       /\ kb' = Drop(kb, read_key(kb).n)
                       /\ t_last' = t_last
                       /\ burst' = burst]_vars
    /\ [][pc = "done" => /\ pc' = "done"
                          /\ out' = <<>>
                          /\ kb' = kb
                          /\ t_last' = t_last
                          /\ burst' = burst]_vars

\* C3 witness: run has returned on a quit with a takeoff or reset key still
\* in the buffer behind it
C3_Witness ==
    /\ pc = "done"
    /\ Len(drained) > 0
    /\ drained[Len(drained)] = "quit"
    /\ Len(kb) > 0
    /\ kb[1] \in {"e", "r"}

\* C4: whenever an analog frame is computed, every character that was pending
\* when the iteration's drain began has been read.
C4_DrainComplete == (pc = "analog" /\ now >= next_analog) => pend = 0

\* the steady-state loop has just sent an analog frame (out) computed from on
FrameSent == pc = "ka" /\ did

\* the axis byte for the held set h: 0xFF for the positive input alone, 0x00
\* for the negative input alone, the center otherwise
Axis(h, p, n, c) ==
    IF p \in h /\ n \notin h THEN 255
    ELSE IF n \in h /\ p \notin h THEN 0
    ELSE c

\* C5: every steady-state analog frame has flags 0x00, c1 from (w, s), c2 from
\* (d, a), c4 from (right, left), and throttle 0xFF when "w" is held, whatever
\* the arrows, and otherwise from (up, down) around thr_base.
C5_AnalogFrame ==
    FrameSent =>
        IsFrame(out,
                Axis(on, "w", "s", args.c1_center),
                Axis(on, "d", "a", args.c2_center),
                IF "w" \in on THEN 255 ELSE Axis(on, "up", "down", args.thr_base),
                Axis(on, "right", "left", args.c4_center),
                0)

\* C5 witness: a frame sent with "w" and "down" held has throttle 0xFF
C5_Witness ==
    /\ FrameSent
    /\ on = {"w", "down"}
    /\ out[5] = 255

\* the configured centers are 0x80 and the base throttle 0x00
DefaultCenters ==
    /\ args.c1_center = 128 /\ args.c2_center = 128 /\ args.c4_center = 128
    /\ args.thr_base = 0

\* C6 as stated: with the default centers and no key ever typed, every
\* 9-byte control frame sent is 03 66 80 80 00 80 00 80 99.
C6_AsClaimed ==
    (DefaultCenters /\ typed = 0 /\ Len(out) = 9)
        => out = <<3, 102, 128, 128, 0, 128, 0, 128, 153>>

\* C6 amended: with the default centers and no key ever typed, every frame of
\* the steady state is 03 66 80 80 00 80 00 80 99 and every frame of the
\* startup burst is 03 66 80 80 00 80 01 81 99.
C6_SteadyFrames ==
    (DefaultCenters /\ typed = 0 /\ Len(out) = 9)
        => \/ pc = "ka" /\ out = <<3, 102, 128, 128, 0, 128, 0, 128, 153>>
           \/ /\ pc = "burst" /\ burst.from = "startup"
              /\ out = <<3, 102, 128, 128, 0, 128, 1, 129, 153>>

\* C6 witness: a steady-state frame after the first, no key typed
C6_Witness ==
    /\ DefaultCenters /\ typed = 0
    /\ FrameSent
    /\ now > t0
    /\ out = <<3, 102, 128, 128, 0, 128, 0, 128, 153>>

\* C7: an analog frame sent at time T reports an input held only if a token
\* for it was read within hold_duration before T, in every iteration.
C7_HeldOnlyIfRecent ==
    FrameSent => \A k \in on : clock - t_obs[k] <= args.hold

\* the next call of read_key returns a directional token
RecordRead == pc = "drain" /\ ~read_key(kb).blocks /\ read_key(kb).tok \in Inputs

\* C8: a recorded token gives its input the iteration's timestamp t0; the input
\* is held at now iff now - t0 <= hold_duration (boundary included), and an
\* input at the sentinel is never held.
C8_HoldWindow ==
    /\ [](FrameSent =>
            \A k \in Inputs :
                k \in on <=> (t_last[k] # FarPast /\ now - t_last[k] <= args.hold))
    /\ [][RecordRead => t_last'[read_key(kb).tok] = now]_vars

\* C8 witness: a frame computed exactly hold_duration after a record reports
\* the input held
C8_Witness ==
    /\ FrameSent
    /\ \E k \in Inputs :
          /\ t_last[k] # FarPast
          /\ now - t_last[k] = args.hold
          /\ k \in on

\* the position of the last x in the sequence s, 0 if there is none
LastIndex(s, x) ==
    LET at == {i \in DOMAIN s : s[i] = x}
    IN  IF at = {} THEN 0 ELSE CHOOSE i \in at : \A j \in at : j <= i

\* the next call of read_key returns "r"
ResetRead == pc = "drain" /\ ~read_key(kb).blocks /\ read_key(kb).tok = "r"

\* C9: reading "r" puts all eight inputs at the sentinel, so none is held, and
\* the drain goes on; in the frame of an iteration that read "r", an input is
\* held iff its token was read after the last "r" of that drain.
C9_Reset ==
    /\ [](FrameSent =>
            (LastIndex(drained, "r") > 0 =>
                \A k \in Inputs :
                    k \in on <=> LastIndex(drained, k) > LastIndex(drained, "r")))
    /\ [][ResetRead => /\ (\A k \in Inputs : t_last'[k] = FarPast)
                        /\ (\A j \in Inputs : ~(now' - t_last'[j] <= args.hold))
                        /\ pc' = "drain"
                        /\ kb' = Drop(kb, 1)]_vars

\* C9 witness: a frame of an iteration that read "r" and then "w" has "w" held
C9_Witness ==
    /\ FrameSent
    /\ drained = <<"r", "w">>
    /\ on = {"w"}

\* C11: for every byte c, axis_to_extreme(true, false, c) = 0xFF,
\* axis_to_extreme(false, true, c) = 0x00, and axis_to_extreme(true, true, c)
\* = axis_to_extreme(false, false, c) = c.
C11_AxisTable ==
    (call.fn = "axis" /\ InU8(call.a[1]))
        => /\ call.res.ok
           /\ (call.pos /\ ~call.neg) => call.res.v = 255
           /\ (~call.pos /\ call.neg) => call.res.v = 0
           /\ (call.pos /\ call.neg) => call.res.v = call.a[1]
           /\ (~call.pos /\ ~call.neg) => call.res.v = call.a[1]

\* C11 witness: axis_to_extreme(true, true, 0x2A) returned 0x2A
C11_Witness ==
    /\ call.fn = "axis"
    /\ call.pos /\ call.neg
    /\ call.a = <<42>>
    /\ call.res.ok
    /\ call.res.v = 42

\* C12: both deadlines start at t0 and each moves only by its own period when
\* its timer fires: next_analog = t0 + n * analog_period for n the number of
\* steady-state analog frames sent, next_ka = t0 + m * ka_period for m the
\* number of keepalives, and n never exceeds floor((t - t0) / analog_period) + 1
\* at any time t.
C12_Deadlines ==
    /\ next_analog = t0 + sent.analog * args.analog_period
    /\ next_ka # NoKa => next_ka = t0 + sent.ka * args.ka_period
    /\ next_ka = NoKa => sent.ka = 0
    /\ sent.analog <= ((clock - t0) \div args.analog_period) + 1
    /\ sent.ka <= ((clock - t0) \div args.ka_period) + 1

\* C12 witness: a second or later analog frame was sent late (after its
\* deadline) and a keepalive has been sent
C12_Witness ==
    /\ pc = "ka" /\ did
    /\ sent.analog >= 2
    /\ sent.ka >= 1
    /\ now > next_analog - args.analog_period

\* C13: a two-byte datagram is always 01 01 and is sent only by the keepalive
\* step of a steady-state iteration; that step sends it iff keepalives are
\* enabled and the iteration's time has reached the keepalive deadline; with
\* keepalives disabled none is ever sent.
C13_Keepalive ==
    /\ [](Len(out) \in {0, 2, 9})
    /\ []((Len(out) = 2 \/ out = KEEPALIVE_0101)
            => (out = KEEPALIVE_0101 /\ pc = "sleep" /\ args.send_keepalive))
    /\ [](~args.send_keepalive => sent.ka = 0)
    /\ [][(pc = "ka" /\ pc' # "failed")
            => ((out' = KEEPALIVE_0101) <=> (args.send_keepalive /\ now >= next_ka))]_vars

\* C13 witness: a second keepalive has been sent, in an iteration that
\* recorded "w" and in which the analog timer did not fire (no held set was
\* computed)
C13_Witness ==
    /\ pc = "sleep"
    /\ out = KEEPALIVE_0101
    /\ sent.ka >= 2
    /\ t_last["w"] = now
    /\ on = {}

\* C14: a failed send leaves run with the exception: the failing step sends
\* nothing and counts nothing as sent, and afterwards nothing is sent, no
\* character is read and no state of the loop changes.
C14_SendFatal ==
    /\ [](ret = "raised" <=> pc = "failed")
    /\ [][pc' = "failed" => /\ out' = <<>>
                            /\ sent' = sent
                            /\ kb' = kb
                            /\ next_analog' = next_analog
                            /\ next_ka' = next_ka]_vars
    /\ [][pc = "failed" => /\ pc' = "failed"
                           /\ out' = <<>>
                           /\ sent' = sent
                           /\ kb' = kb
                           /\ t_last' = t_last]_vars

\* C14 witness: a send of an inline burst failed after the burst had sent
\* frames, with a key still unread in the console buffer
C14_Witness ==
    /\ pc = "failed"
    /\ burst.from = "drain"
    /\ clock < burst.end
    /\ sent.burst >= 1
    /\ Len(kb) > 0

\* the terminal sends the sequence of an arrow key: ESC, then "[" or "O",
\* then one of A B C D
ArrowSequence ==
    /\ Len(wire.seq) = 3
    /\ wire.seq[1] = "ESC"
    /\ wire.seq[2] \in {"[", "O"}
    /\ wire.seq[3] \in {"A", "B", "C", "D"}

\* C15: however the three characters of an arrow key's sequence arrive
\* relative to the polls of the console buffer, read_key returns the arrow
\* token for them and never "quit": in a run whose only input is one such
\* sequence, every token read is that arrow and run does not return.
C15_ArrowNeverQuit ==
    (ArrowSequence /\ typed = 0)
        => /\ pc # "done"
           /\ \A i \in DOMAIN drained : drained[i] = AnsiToken(wire.seq[3])

\* C16: the steady-state loop sleeps only when neither timer fired, for
\* min(10 ms, nearest deadline - now), never less than 0 and never more than
\* 10 ms; the pacing sleep of a takeoff burst has the same cap; and the loop
\* never goes to sleep while a deadline is overdue on the clock.
C16_SleepDiscipline ==
    /\ [][pc = "sleep" => /\ (clock' # clock \/ slept' # 0) => ~did
                          /\ ~did => slept' = Max(0, Min(SleepCap, NearestDeadline - now))
                          /\ 0 <= slept' /\ slept' <= SleepCap]_vars
    /\ [][pc = "burst" => (0 <= slept' /\ slept' <= SleepCap)]_vars
    /\ []((pc = "sleep" /\ ~did) => clock < NearestDeadline)

\* the parts of C16 about which iterations sleep and for how long
C16_SleepArgument ==
    /\ [][pc = "sleep" => /\ (clock' # clock \/ slept' # 0) => ~did
                          /\ ~did => slept' = Max(0, Min(SleepCap, NearestDeadline - now))
                          /\ 0 <= slept' /\ slept' <= SleepCap]_vars
    /\ [][pc = "burst" => (0 <= slept' /\ slept' <= SleepCap)]_vars
    /\ []((pc = "sleep" /\ ~did) => now < NearestDeadline)

\* C17: every takeoff burst ends, at every configured rate (0.5 Hz included);
\* a burst that returns has sent at least one frame and returns at 1.0 s or
\* more after its start; no frame is sent at or after start + 1.0 s; and once
\* the clock shows 1.0 s elapsed the burst sends nothing and sleeps no more:
\* its only step is its return.
C17_BurstTerminates ==
    /\ (pc = "burst") ~> (pc # "burst")
    /\ [][(pc = "burst" /\ pc' \notin {"burst", "failed"})
            => (sent.burst >= 1 /\ clock >= burst.began + TakeoffDuration)]_vars
    /\ []((pc = "burst" /\ Len(out) = 9) => clock < burst.began + TakeoffDuration)
    /\ [][(pc = "burst" /\ clock >= burst.began + TakeoffDuration)
            => /\ sent' = sent
               /\ clock' = clock
               /\ pc' \in {"burst", "top", "drain"}
               /\ pc' = "burst" => (out' = out /\ burst' = burst)]_vars

\* C17 witness: at 0.5 Hz an inline burst has returned to the drain loop after
\* sending a single frame
C17_Witness ==
    /\ pc = "drain"
    /\ burst.from = "drain"
    /\ args.analog_period > TakeoffDuration
    /\ clock >= burst.began + TakeoffDuration
    /\ sent.burst = 1

\* the steady-state loop is running and its analog deadline has passed
Overdue ==
    /\ \/ pc \in {"top", "drain", "analog", "ka", "sleep"}
       \/ pc = "burst" /\ burst.from = "drain"
    /\ clock >= next_analog

\* the operator holds the takeoff key down
TakeoffHeld == wire.held /\ wire.seq = <<"e">>

\* C18 as stated: in the steady state, whenever the analog deadline has
\* passed, a flags=0x00 analog frame is eventually sent unless run ends by a
\* quit or a failed send, whatever key tokens keep arriving.
C18_AsClaimed == Overdue ~> (FrameSent \/ pc \in {"done", "failed"})

\* C18 amended: the same, in every run in which the takeoff key is not held
\* down (typed takeoff keys, a held "w" and every other token included).
C18_EventuallySent ==
    (Overdue /\ ~TakeoffHeld) ~> (FrameSent \/ pc \in {"done", "failed"})

\* C18 witness: an analog frame sent 1.0 s or more after its deadline, after
\* an inline burst
C18_Witness ==
    /\ FrameSent
    /\ ~TakeoffHeld
    /\ burst.from = "drain"
    /\ clock >= (next_analog - args.analog_period) + TakeoffDuration
    /\ out[7] = 0

\* the parts of C19 about the deadlines: the analog step leaves next_ka alone
\* and moves next_analog by one period or not at all, the keepalive step leaves
\* next_analog alone, the drain loop and its inline bursts leave both alone,
\* and an iteration whose now has reached next_analog sends one frame and does
\* not sleep
C19_Independent ==
    /\ [][pc = "analog" => /\ next_ka' = next_ka
                           /\ next_analog' \in {next_analog,
                                                next_analog + args.analog_period}]_vars
    /\ [][pc = "ka" => next_analog' = next_analog]_vars
    /\ [][(pc = "drain" \/ (pc = "burst" /\ burst.from = "drain"))
            => (next_analog' = next_analog /\ next_ka' = next_ka)]_vars
    /\ [][(pc = "analog" /\ now >= next_analog /\ pc' = "ka")
            => /\ next_analog' = next_analog + args.analog_period
               /\ sent'.analog = sent.analog + 1
               /\ did']_vars
    /\ [][(pc = "sleep" /\ did) => clock' = clock]_vars

\* C19: the two timers are independent, key processing (inline bursts
\* included) leaves both deadlines unchanged, and once an inline burst has run
\* the loop does not sleep while the analog deadline is overdue on the clock:
\* the overdue deadlines are served one frame per iteration.
C19_CatchUp ==
    /\ C19_Independent
    /\ [][(pc = "sleep" /\ burst.from = "drain" /\ clock >= next_analog)
            => (did /\ clock' = clock)]_vars

\* the four values run passes through clamp_u8 for the held set h
AxisValues(h) ==
    {axis_to_extreme("w" \in h, "s" \in h, args.c1_center).v,
     axis_to_extreme("d" \in h, "a" \in h, args.c2_center).v,
     axis_to_extreme("right" \in h, "left" \in h, args.c4_center).v,
     Throttle(h).v}

\* d is a 9-byte control frame 03 66 .. 99: bytes in 0..255, checksum correct
WellFormedFrame(d) ==
    /\ Len(d) = 9
    /\ d[1] = 3 /\ d[2] = 102 /\ d[9] = 153
    /\ \A i \in 3..8 : d[i] \in 0..255
    /\ ChecksumOk(d)

\* C20: with a validated configuration no call of the loop raises a range
\* error, clamp_u8 is the identity on the values it is given, and every
\* datagram sent is the keepalive 01 01 or a well-formed 9-byte control frame
\* whose flags byte is 0x01 exactly in a takeoff burst and 0x00 exactly in the
\* steady state.
C20_WellFormed ==
    /\ \A c \in {args.c1_center, args.c2_center, args.c4_center, args.thr_base} :
          c \in 0..255
    /\ pc = "burst" => TakeoffPkt.ok
    /\ pc = "analog" => /\ AnalogPkt(HeldAt(now)).ok
                        /\ \A v \in AxisValues(HeldAt(now)) : clamp_u8(v) = v
    /\ out # <<>> =>
          \/ out = KEEPALIVE_0101 /\ pc = "sleep"
          \/ /\ WellFormedFrame(out)
             /\ pc \in {"burst", "ka"}
             /\ out[7] = (IF pc = "burst" THEN 1 ELSE 0)

\* C20 witness: a steady-state frame with a held "w" (c1 and throttle 0xFF)
\* has been sent after an inline takeoff burst
C20_Witness ==
    /\ pc = "ka"
    /\ WellFormedFrame(out)
    /\ out[7] = 0
    /\ out[3] = 255
    /\ out[5] = 255
    /\ burst.from = "drain"
    /\ sent.burst >= 1

\* C21: the key-state table has exactly the eight entries of Inputs, each the
\* sentinel or a time read by an iteration of the loop; only a step of the
\* drain loop changes it: a directional token sets its own entry to the
\* iteration's now and leaves the other seven alone, a reset sets all eight
\* to the sentinel; the analog and keepalive steps, the sleep and every step of
\* a takeoff burst leave it unchanged.
C21_KeyTable ==
    /\ [](DOMAIN t_last = Inputs)
    /\ [](\A k \in Inputs : t_last[k] = FarPast \/ (t0 <= t_last[k] /\ t_last[k] <= now))
    /\ [][pc # "drain" => t_last' = t_last]_vars
    /\ [][t_last' # t_last =>
            /\ ~read_key(kb).blocks
            /\ \/ /\ read_key(kb).tok \in Inputs
                  /\ t_last'[read_key(kb).tok] = now
                  /\ \A j \in Inputs \ {read_key(kb).tok} : t_last'[j] = t_last[j]
               \/ /\ read_key(kb).tok = "r"
                  /\ \A j \in Inputs : t_last'[j] = FarPast]_vars
    /\ [][(pc = "drain" /\ ~read_key(kb).blocks /\ kb' # kb /\ Len(kb') < Len(kb)
           /\ read_key(kb).tok \in {None, "quit", "e"}) => t_last' = t_last]_vars

\* C21 witness: two entries recorded by different iterations, the other six at
\* the sentinel, seen after the timers of the later iteration have run
C21_Witness ==
    /\ pc = "sleep"
    /\ DOMAIN t_last = Inputs
    /\ \E k \in Inputs, j \in Inputs :
          /\ t_last[k] # FarPast
          /\ t_last[j] # FarPast
          /\ t_last[k] < t_last[j]
          /\ t_last[j] = now
          /\ \A i \in Inputs \ {k, j} : t_last[i] = FarPast

\* run has ended: it returned 0 or an exception left it
Ended == pc \in {"done", "failed"}

\* the part of C22 about the loop: a quit token, a failed send of the steady
\* state and a failed send of an inline burst close the socket, and once the
\* socket is closed it stays closed and nothing is sent
C22_ClosedInLoop ==
    /\ [][(~Ended /\ Ended' /\ ~(pc = "burst" /\ burst.from = "startup"))
            => sock' = "closed"]_vars
    /\ [](sock = "closed" => Ended)
    /\ [][sock = "closed" => (sock' = "closed" /\ out' = <<>> /\ sent' = sent)]_vars

\* C22: once the socket exists, however run ends (a quit token, a failed send
\* in the steady state, a failed send in the startup burst or in an inline
\* burst) the socket is closed, and nothing is sent after the close.
C22_ClosedOnEveryExit ==
    /\ [](Ended => sock = "closed")
    /\ [][sock = "closed" => (sock' = "closed" /\ out' = <<>> /\ sent' = sent)]_vars

=============================================================================
